---- MODULE Spec2Model ----
(***************************************************************************)
(* Alert-state derivation of ua-alerts-map: the AlertData record of        *)
(* src/types/AlertTypes.js (constructor, calculateDuration,                *)
(* calculateIntensity, getPrimaryThreat, getColor, isCritical, toJSON,     *)
(* fromJSON), AlertUtils.mergeAlertData and AlertUtils.sortByAlertPriority,*)
(* the map's alert processing, and callers that keep merged records in a   *)
(* store.                                                                  *)
(*                                                                         *)
(* JavaScript values are tagged records [t |-> <type>, ...]; a number is   *)
(* an integer or NaN.  AlertData objects live in the heap recs (index =    *)
(* object identity), arrays live in the heap arrs, and an object holds a   *)
(* reference to its threatTypes / subRegions array, so that two objects    *)
(* built from one another share the array as they do in the program.  A    *)
(* duration object is never changed in place by the program, and is held   *)
(* by value.                                                               *)
(***************************************************************************)
EXTENDS Integers, Sequences, FiniteSets, TLC

VARIABLES
  recs,     \* heap of AlertData objects, in order of construction
  arrs,     \* heap of arrays: arrs[k] is the element sequence of array k
  now,      \* the wall clock, in milliseconds
  regions,  \* the caller's list handed to sortByAlertPriority: refs into recs
  last,     \* the last call made: operation, arguments, outcome
  store     \* the callers' store of one record per region, and its updaters

vars == <<recs, arrs, now, regions, last, store>>

(***************************************************************************)
(* Bounds of the model.                                                    *)
(***************************************************************************)
MaxRecs == 3        \* AlertData objects the lifecycle builds: a record and its merges
MaxThreats == 2     \* length of a threatTypes list
MaxDays == 3        \* whole days an instant may lie after the epoch
MaxRegions == 3     \* length of the list handed to sortByAlertPriority

(***************************************************************************)
(* JavaScript values.                                                      *)
(***************************************************************************)
Undefined == [t |-> "undefined"]
Null == [t |-> "null"]
NaN == [t |-> "NaN"]
Num(n) == [t |-> "number", v |-> n]
Str(s) == [t |-> "string", v |-> s]
Bool(b) == [t |-> "boolean", v |-> b]
\* an ISO-8601 string that Date parses to the instant ms
Iso(ms) == [t |-> "isodate", ms |-> ms]
\* a reference to the array arrs[k]
ArrRef(k) == [t |-> "array", ref |-> k]
\* an object literal {days, hours, minutes}
DurationObj(d, h, m) == [t |-> "object", days |-> d, hours |-> h, minutes |-> m]

\* ToBoolean: what `!x` and `x || y` test
Truthy(x) ==
  CASE x.t = "undefined" -> FALSE
    [] x.t = "null" -> FALSE
    [] x.t = "NaN" -> FALSE
    [] x.t = "number" -> x.v # 0
    [] x.t = "string" -> x.v # ""
    [] x.t = "boolean" -> x.v
    [] OTHER -> TRUE

\* x || y
Or(x, y) == IF Truthy(x) THEN x ELSE y

\* data.key: a key the object does not have reads as undefined
Get(data, key) == IF key \in DOMAIN data THEN data[key] ELSE Undefined

IsNum(x) == x.t = "number"

\* arithmetic on numbers: NaN in, NaN out
Add(a, b) == IF IsNum(a) /\ IsNum(b) THEN Num(a.v + b.v) ELSE NaN
Sub(a, b) == IF IsNum(a) /\ IsNum(b) THEN Num(a.v - b.v) ELSE NaN
Mul(a, b) == IF IsNum(a) /\ IsNum(b) THEN Num(a.v * b.v) ELSE NaN
\* a > b: false when either side is NaN
Gt(a, b) == IsNum(a) /\ IsNum(b) /\ a.v > b.v
\* a < b, for numbers and NaN: false when either side is NaN
Lt(a, b) == IsNum(a) /\ IsNum(b) /\ a.v < b.v
\* Math.floor(a / n), n a positive integer
FloorDiv(a, n) == IF IsNum(a) THEN Num(a.v \div n) ELSE NaN
\* a % n, n a positive integer: the result has the sign of the dividend
Rem(a, n) ==
  IF IsNum(a) THEN (IF a.v >= 0 THEN Num(a.v % n) ELSE Num(-((-a.v) % n))) ELSE NaN
\* Math.min(a, b)
MathMin(a, b) ==
  IF IsNum(a) /\ IsNum(b) THEN (IF a.v < b.v THEN a ELSE b) ELSE NaN
\* the numeric reading of a destructured property: undefined becomes NaN in arithmetic
ToNumber(x) == IF IsNum(x) THEN x ELSE NaN

\* new Date(x).getTime() for a truthy x: an ISO string gives its instant, a number
\* is taken as milliseconds, anything else is an Invalid Date
DateParse(x) ==
  CASE x.t = "isodate" -> Num(x.ms)
    [] x.t = "number" -> x
    [] OTHER -> NaN

(***************************************************************************)
(* AlertLevel, ThreatType, ThreatMetadata.                                 *)
(***************************************************************************)
AlertLevel == {"none", "low", "medium", "high", "critical", "air_raid", "tactical", "ballistic"}

ThreatType ==
  {"air_raid", "tactical_aviation", "cruise_missiles", "ballistic_missiles", "drones",
   "artillery", "chemical", "nuclear", "street_fighting"}

ThreatMetadata ==
  [air_raid |-> [color |-> "#dc143c", priority |-> 10, pattern |-> "none"],
   tactical_aviation |-> [color |-> "#ff6b6b", priority |-> 8, pattern |-> "none"],
   cruise_missiles |-> [color |-> "#ff4444", priority |-> 9, pattern |-> "none"],
   ballistic_missiles |-> [color |-> "#cc0000", priority |-> 10, pattern |-> "none"],
   drones |-> [color |-> "#ff8866", priority |-> 6, pattern |-> "none"],
   artillery |-> [color |-> "#ff9999", priority |-> 7, pattern |-> "dotted"],
   chemical |-> [color |-> "#9932cc", priority |-> 9, pattern |-> "none"],
   nuclear |-> [color |-> "#8b0000", priority |-> 10, pattern |-> "none"],
   street_fighting |-> [color |-> "#cd5c5c", priority |-> 5, pattern |-> "striped"]]

\* ThreatMetadata is a plain object: a token that names a property every object
\* inherits reads as that property (a function: truthy, with no priority or color)
InheritedKeys == {"constructor"}

\* ThreatMetadata[threat]
MetadataOf(threat) ==
  CASE threat \in DOMAIN ThreatMetadata -> [t |-> "metadata", v |-> ThreatMetadata[threat]]
    [] threat \in InheritedKeys -> [t |-> "function"]
    [] OTHER -> Undefined

\* metadata.priority, for a truthy metadata
PriorityOf(metadata) ==
  IF metadata.t = "metadata" THEN Num(metadata.v.priority) ELSE Undefined

(***************************************************************************)
(* class AlertData.                                                        *)
(***************************************************************************)
Fields ==
  {"regionId", "regionName", "regionNameEn", "alertLevel", "threatTypes", "startTime",
   "endTime", "duration", "intensity", "subRegions", "isActive", "lastUpdated"}

ZeroDuration == DurationObj(Num(0), Num(0), Num(0))

\* new AlertData(data) for an object data, on the array heap `heap` at clock `clock`:
\* the new object and the heap after the two `|| []` defaults are allocated
NewAlertData(data, heap, clock) ==
  LET tt == Get(data, "threatTypes")
      heap1 == IF Truthy(tt) THEN heap ELSE Append(heap, << >>)
      sr == Get(data, "subRegions")
      heap2 == IF Truthy(sr) THEN heap1 ELSE Append(heap1, << >>)
  IN [obj |->
        [regionId |-> Or(Get(data, "regionId"), Str("")),
         regionName |-> Or(Get(data, "regionName"), Str("")),
         regionNameEn |-> Or(Get(data, "regionNameEn"), Str("")),
         alertLevel |-> Or(Get(data, "alertLevel"), Str("none")),
         threatTypes |-> IF Truthy(tt) THEN tt ELSE ArrRef(Len(heap1)),
         startTime |-> Or(Get(data, "startTime"), Null),
         endTime |-> Or(Get(data, "endTime"), Null),
         duration |-> Or(Get(data, "duration"), ZeroDuration),
         intensity |-> Or(Get(data, "intensity"), Num(0)),
         subRegions |-> IF Truthy(sr) THEN sr ELSE ArrRef(Len(heap2)),
         isActive |-> IF Get(data, "isActive").t # "undefined"
                        THEN Get(data, "isActive") ELSE Bool(FALSE),
         lastUpdated |-> Or(Get(data, "lastUpdated"), Iso(clock))],
      arrs |-> heap2]

MsPerMinute == 1000 * 60
MsPerHour == 1000 * 60 * 60
MsPerDay == 1000 * 60 * 60 * 24

\* Breakdown with the minutes taken of the day instead of the hour
BreakdownMinutesOfDay(diff) ==
  DurationObj(FloorDiv(diff, MsPerDay),
              FloorDiv(Rem(diff, MsPerDay), MsPerHour),
              FloorDiv(Rem(diff, MsPerDay), MsPerMinute))

\* the {days, hours, minutes} breakdown of a millisecond difference
Breakdown(diff) ==
  DurationObj(FloorDiv(diff, MsPerDay),
              FloorDiv(Rem(diff, MsPerDay), MsPerHour),
              FloorDiv(Rem(diff, MsPerHour), MsPerMinute))

\* obj.calculateDuration() at clock `clock`: the value returned and the object after
CalculateDuration(obj, clock) ==
  IF ~Truthy(obj.startTime)
    THEN [ret |-> ZeroDuration, obj |-> obj]
    ELSE LET start == DateParse(obj.startTime)
             end == IF Truthy(obj.endTime) THEN DateParse(obj.endTime) ELSE Num(clock)
             d == Breakdown(Sub(end, start))
         IN [ret |-> d, obj |-> [obj EXCEPT !.duration = d]]

\* the forEach of calculateIntensity over the elements of threatTypes
RECURSIVE SumPriorities(_, _)
SumPriorities(threats, acc) ==
  IF threats = << >>
    THEN acc
    ELSE LET metadata == MetadataOf(Head(threats))
         IN SumPriorities(Tail(threats),
                          IF Truthy(metadata)
                            THEN Add(acc, Mul(ToNumber(PriorityOf(metadata)), Num(10)))
                            ELSE acc)

\* DurationBonus with the thresholds included (>= for >)
DurationBonusInclusive(duration) ==
  LET durationHours == Add(Mul(ToNumber(duration.days), Num(24)), ToNumber(duration.hours))
  IN IF ~Gt(Num(72), durationHours) /\ IsNum(durationHours) THEN 20
     ELSE IF ~Gt(Num(24), durationHours) /\ IsNum(durationHours) THEN 10
     ELSE IF ~Gt(Num(6), durationHours) /\ IsNum(durationHours) THEN 5
     ELSE 0

\* the duration bonus of calculateIntensity
DurationBonus(duration) ==
  LET durationHours == Add(Mul(ToNumber(duration.days), Num(24)), ToNumber(duration.hours))
  IN IF Gt(durationHours, Num(72)) THEN 20
     ELSE IF Gt(durationHours, Num(24)) THEN 10
     ELSE IF Gt(durationHours, Num(6)) THEN 5
     ELSE 0

\* calculateIntensity that adds to the stored intensity instead of starting from 0
CalculateIntensityAccumulating(obj, heap) ==
  IF obj.threatTypes.t # "array"
    THEN [raised |-> TRUE, ret |-> Undefined, obj |-> obj]
    ELSE LET base == SumPriorities(heap[obj.threatTypes.ref], ToNumber(obj.intensity))
             intensity == Add(base, Num(DurationBonus(obj.duration)))
             capped == MathMin(intensity, Num(100))
         IN [raised |-> FALSE, ret |-> capped, obj |-> [obj EXCEPT !.intensity = capped]]

\* obj.calculateIntensity(): forEach exists on arrays only, so any other threatTypes
\* value raises a TypeError before anything is stored
CalculateIntensity(obj, heap) ==
  IF obj.threatTypes.t # "array"
    THEN [raised |-> TRUE, ret |-> Undefined, obj |-> obj]
    ELSE LET base == SumPriorities(heap[obj.threatTypes.ref], Num(0))
             intensity == Add(base, Num(DurationBonus(obj.duration)))
             capped == MathMin(intensity, Num(100))
         IN [raised |-> FALSE, ret |-> capped, obj |-> [obj EXCEPT !.intensity = capped]]

\* a === b, for values whose type tag decides the shape
StrictEq(a, b) == a.t = b.t /\ a = b

\* (ThreatMetadata[threat]?.priority || 0)
PriorityOrZero(threat) ==
  LET metadata == MetadataOf(threat)
  IN Or(IF Truthy(metadata) THEN PriorityOf(metadata) ELSE Undefined, Num(0))

\* the reducer of getPrimaryThreat with >= for >: the later of two equal priorities
RECURSIVE ReduceLaterWins(_, _)
ReduceLaterWins(primary, rest) ==
  IF rest = << >>
    THEN primary
    ELSE LET current == Head(rest)
         IN ReduceLaterWins(IF ~Gt(PriorityOrZero(primary), PriorityOrZero(current))
                              THEN current ELSE primary,
                            Tail(rest))

\* threatTypes.reduce(reducer, primary) of getPrimaryThreat over the elements rest
RECURSIVE Reduce(_, _)
Reduce(primary, rest) ==
  IF rest = << >>
    THEN primary
    ELSE LET current == Head(rest)
         IN Reduce(IF Gt(PriorityOrZero(current), PriorityOrZero(primary))
                     THEN current ELSE primary,
                   Tail(rest))

\* obj.getPrimaryThreat(): reduce visits every element, the first one included,
\* with the first one as the initial value
GetPrimaryThreat(obj, heap) ==
  LET threats == heap[obj.threatTypes.ref]
  IN IF Len(threats) = 0 THEN Null ELSE Str(Reduce(threats[1], threats))

\* ThreatMetadata[threat].color, for a truthy ThreatMetadata[threat]
ColorOf(metadata) ==
  IF metadata.t = "metadata" THEN Str(metadata.v.color) ELSE Undefined

\* obj.getColor()
GetColor(obj, heap) ==
  IF StrictEq(obj.alertLevel, Str("none")) THEN Str("#ffffff")
  ELSE LET primaryThreat == GetPrimaryThreat(obj, heap)
       IN IF Truthy(primaryThreat) /\ Truthy(MetadataOf(primaryThreat.v))
            THEN ColorOf(MetadataOf(primaryThreat.v))
          ELSE IF Gt(obj.intensity, Num(80)) THEN Str("#8b0000")
          ELSE IF Gt(obj.intensity, Num(60)) THEN Str("#dc143c")
          ELSE IF Gt(obj.intensity, Num(40)) THEN Str("#ff6b6b")
          ELSE IF Gt(obj.intensity, Num(20)) THEN Str("#ffcccb")
          ELSE Str("#ffe0e0")

\* array.includes(x)
Includes(seq, x) == \E i \in 1..Len(seq) : seq[i] = x

\* isCritical without the test for nuclear
IsCriticalWithoutNuclear(obj, heap) ==
  \/ StrictEq(obj.alertLevel, Str("critical"))
  \/ Includes(heap[obj.threatTypes.ref], "ballistic_missiles")

\* obj.isCritical()
IsCritical(obj, heap) ==
  \/ StrictEq(obj.alertLevel, Str("critical"))
  \/ Includes(heap[obj.threatTypes.ref], "ballistic_missiles")
  \/ Includes(heap[obj.threatTypes.ref], "nuclear")

\* toJSON without the isActive property
ToJSONWithoutIsActive(obj) ==
  [regionId |-> obj.regionId, regionName |-> obj.regionName,
   regionNameEn |-> obj.regionNameEn, alertLevel |-> obj.alertLevel,
   threatTypes |-> obj.threatTypes, startTime |-> obj.startTime, endTime |-> obj.endTime,
   duration |-> obj.duration, intensity |-> obj.intensity, subRegions |-> obj.subRegions,
   lastUpdated |-> obj.lastUpdated]

\* obj.toJSON(): a plain object of the twelve properties; the arrays are the
\* object's own arrays, not copies
ToJSON(obj) ==
  [regionId |-> obj.regionId, regionName |-> obj.regionName,
   regionNameEn |-> obj.regionNameEn, alertLevel |-> obj.alertLevel,
   threatTypes |-> obj.threatTypes, startTime |-> obj.startTime, endTime |-> obj.endTime,
   duration |-> obj.duration, intensity |-> obj.intensity, subRegions |-> obj.subRegions,
   isActive |-> obj.isActive, lastUpdated |-> obj.lastUpdated]

(***************************************************************************)
(* AlertUtils.                                                             *)
(***************************************************************************)
\* Present without the test for null: a null in the update counts as a value
PresentOrNull(update, key) ==
  key \in DOMAIN update /\ update[key].t # "undefined"

\* update[key] !== undefined && update[key] !== null
Present(update, key) ==
  key \in DOMAIN update /\ update[key].t \notin {"undefined", "null"}

\* mergeAlertData without the copy: `merged` is the existing object itself
MergeAlertDataInPlace(objs, i, update, heap, clock) ==
  LET objs2 == [objs EXCEPT ![i] =
                  [key \in Fields |-> IF Present(update, key) THEN update[key] ELSE @[key]]]
      objs3 == [objs2 EXCEPT ![i] = CalculateDuration(@, clock).obj]
      r == CalculateIntensity(objs3[i], heap)
      objs4 == [objs3 EXCEPT ![i] = r.obj]
  IN [raised |-> r.raised, recs |-> objs4, arrs |-> heap, ref |-> i]

\* AlertUtils.mergeAlertData(objs[i], update) on the object heap objs: `merged` is a
\* new object, which the key loop, calculateDuration and calculateIntensity then
\* change in place.  Gives the two heaps afterwards, the reference returned, and
\* whether calculateIntensity raised (then nothing is returned)
MergeAlertData(objs, i, update, heap, clock) ==
  LET made == NewAlertData(objs[i], heap, clock)
      merged == Len(objs) + 1
      objs1 == Append(objs, made.obj)
      objs2 == [objs1 EXCEPT ![merged] =
                  [key \in Fields |-> IF Present(update, key) THEN update[key] ELSE @[key]]]
      objs3 == [objs2 EXCEPT ![merged] = CalculateDuration(@, clock).obj]
      r == CalculateIntensity(objs3[merged], made.arrs)
      objs4 == [objs3 EXCEPT ![merged] = r.obj]
  IN [raised |-> r.raised, recs |-> objs4, arrs |-> made.arrs, ref |-> merged]

\* requiresImmediateAttention without the test for cruise missiles
RequiresImmediateAttentionWithoutCruise(alert, heap) ==
  \/ IsCritical(alert, heap)
  \/ Includes(heap[alert.threatTypes.ref], "ballistic_missiles")

\* AlertUtils.requiresImmediateAttention(alert)
RequiresImmediateAttention(alert, heap) ==
  \/ IsCritical(alert, heap)
  \/ Includes(heap[alert.threatTypes.ref], "ballistic_missiles")
  \/ Includes(heap[alert.threatTypes.ref], "cruise_missiles")

\* AlertUtils.getAlertLevelFromIntensity(intensity), intensity a number or NaN
GetAlertLevelFromIntensity(intensity) ==
  IF StrictEq(intensity, Num(0)) THEN Str("none")
  ELSE IF Lt(intensity, Num(20)) THEN Str("low")
  ELSE IF Lt(intensity, Num(40)) THEN Str("medium")
  ELSE IF Lt(intensity, Num(70)) THEN Str("high")
  ELSE Str("critical")

\* a.intensity !== b.intensity: NaN differs from everything, itself included
StrictNotEq(a, b) == a.t = "NaN" \/ b.t = "NaN" \/ ~StrictEq(a, b)

\* the comparator of sortByAlertPriority on two AlertData objects.  AlertData has
\* no getTotalMinutes method (only AlertHistoryEntry has), so the duration
\* tie-break raises a TypeError
Compare(a, b, heap) ==
  IF IsCritical(a, heap) /\ ~IsCritical(b, heap) THEN [raised |-> FALSE, v |-> Num(-1)]
  ELSE IF ~IsCritical(a, heap) /\ IsCritical(b, heap) THEN [raised |-> FALSE, v |-> Num(1)]
  ELSE IF StrictNotEq(a.intensity, b.intensity)
    THEN [raised |-> FALSE, v |-> Sub(ToNumber(b.intensity), ToNumber(a.intensity))]
  ELSE [raised |-> TRUE, v |-> Undefined]

\* Array.prototype.sort, as a stable insertion sort: x is inserted into the sorted
\* prefix, compared with its elements from the right; a comparator result that is
\* NaN counts as 0.  A raise of the comparator ends the sort
RECURSIVE Insert(_, _, _, _)
Insert(prefix, x, objs, heap) ==
  IF prefix = << >>
    THEN [raised |-> FALSE, seq |-> <<x>>]
    ELSE LET n == Len(prefix)
             c == Compare(objs[prefix[n]], objs[x], heap)
         IN IF c.raised THEN [raised |-> TRUE, seq |-> Append(prefix, x)]
            ELSE IF Gt(c.v, Num(0))
              THEN LET rest == Insert(SubSeq(prefix, 1, n - 1), x, objs, heap)
                   IN [raised |-> rest.raised, seq |-> Append(rest.seq, prefix[n])]
              ELSE [raised |-> FALSE, seq |-> Append(prefix, x)]

RECURSIVE SortFrom(_, _, _, _)
SortFrom(prefix, rest, objs, heap) ==
  IF rest = << >>
    THEN [raised |-> FALSE, seq |-> prefix]
    ELSE LET ins == Insert(prefix, Head(rest), objs, heap)
         IN IF ins.raised THEN [raised |-> TRUE, seq |-> ins.seq \o Tail(rest)]
            ELSE SortFrom(ins.seq, Tail(rest), objs, heap)

\* AlertUtils.sortByAlertPriority(list): sorts the list in place and returns it
SortByAlertPriority(list, objs, heap) == SortFrom(<< >>, list, objs, heap)

(***************************************************************************)
(* Inputs: raw alert payloads and clock instants.                          *)
(***************************************************************************)
\* an array literal of a payload, not yet an object of the heap
ArrLit(seq) == [t |-> "arrayLiteral", v |-> seq]

IsLit(p, key) == key \in DOMAIN p /\ p[key].t = "arrayLiteral"

\* the payload as the program holds it: its array literals are arrays of the heap
Materialize(p, heap) ==
  LET heap1 == IF IsLit(p, "threatTypes") THEN Append(heap, p["threatTypes"].v) ELSE heap
      heap2 == IF IsLit(p, "subRegions") THEN Append(heap1, p["subRegions"].v) ELSE heap1
  IN [data |-> [key \in DOMAIN p |->
                  IF key = "threatTypes" /\ IsLit(p, key) THEN ArrRef(Len(heap1))
                  ELSE IF key = "subRegions" /\ IsLit(p, key) THEN ArrRef(Len(heap2))
                  ELSE p[key]],
      arrs |-> heap2]

\* threat tokens of the inputs: known types of every priority class, a token the
\* table does not know, and a token that names an inherited property
InputTokens ==
  {"air_raid", "ballistic_missiles", "cruise_missiles", "drones", "street_fighting",
   "laser", "constructor"}

\* every list of at most n input tokens (repeats allowed)
TokenSeqs(n) == UNION {[1..k -> InputTokens] : k \in 0..n}

\* instants: each day up to MaxDays, at 00:00:00, 06:59:59 and 23:00:30
Instants ==
  {d * MsPerDay + hms[1] * MsPerHour + hms[2] * MsPerMinute + hms[3] * 1000 :
     d \in 0..MaxDays, hms \in {<<0, 0, 0>>, <<6, 59, 59>>, <<23, 0, 30>>}}

\* a timestamp no Date can parse
Garbage == Str("not-a-date")

EmptyPayload == [key \in {} |-> Undefined]

\* an alert in progress and the same alert ended, as the data source delivers them
ActivePayload ==
  [regionId |-> Str("kyiv"), alertLevel |-> Str("high"), threatTypes |-> ArrLit(<<"drones">>),
   startTime |-> Iso(0), endTime |-> Null, isActive |-> Bool(TRUE)]

EndedPayload ==
  [regionId |-> Str("kyiv"), alertLevel |-> Str("none"), threatTypes |-> ArrLit(<< >>),
   startTime |-> Iso(0), endTime |-> Iso(30 * MsPerMinute), isActive |-> Bool(FALSE)]

\* one key alone, as a partial update carries it
OneKey(key, value) == [k \in {key} |-> value]

\* raw payloads and partial updates: nothing, a whole alert, or one key
Payloads ==
  {EmptyPayload, ActivePayload, EndedPayload,
   OneKey("regionId", Str("lviv")),
   OneKey("regionName", Str("Lvivska")),
   OneKey("alertLevel", Str("critical")),
   OneKey("threatTypes", ArrLit(<< >>)),
   OneKey("threatTypes", ArrLit(<<"nuclear", "laser">>)),
   OneKey("startTime", Iso(MsPerHour)),
   OneKey("endTime", Iso(30 * MsPerMinute)),
   OneKey("endTime", Null),
   OneKey("duration", DurationObj(Num(3), Num(1), Num(5))),
   OneKey("intensity", Num(150)),
   OneKey("subRegions", ArrLit(<<"lviv-city">>)),
   OneKey("isActive", Bool(TRUE))}

\* clock readings of the lifecycle
ClockValues == {2 * MsPerHour, 26 * MsPerHour + 30 * 1000}

(***************************************************************************)
(* The calls.                                                              *)
(***************************************************************************)
NoCall ==
  [op |-> "none", self |-> 0, arg |-> EmptyPayload, ret |-> Undefined, raised |-> FALSE,
   pre |-> [recs |-> << >>, arrs |-> << >>, regions |-> << >>], clock |-> 0]

\* no store: the operations are called on records alone
NoStore == [held |-> << >>, writer |-> << >>, upd |-> << >>]

Call(op, self, arg, ret, raised) ==
  [op |-> op, self |-> self, arg |-> arg, ret |-> ret, raised |-> raised,
   pre |-> [recs |-> recs, arrs |-> arrs, regions |-> regions], clock |-> now]

\* a reference to the AlertData object recs[k]
ObjRef(k) == [t |-> "AlertData", ref |-> k]

\* new AlertData(p) / AlertData.fromJSON(p)
Construct(op, p) ==
  /\ Len(recs) < MaxRecs
  /\ LET m == Materialize(p, arrs)
         made == NewAlertData(m.data, m.arrs, now)
     IN /\ recs' = Append(recs, made.obj)
        /\ arrs' = made.arrs
        /\ last' = Call(op, 0, p, ObjRef(Len(recs) + 1), FALSE)
  /\ UNCHANGED <<now, regions, store>>

New == \E p \in Payloads : Construct("new", p)

FromJSON == \E p \in Payloads : Construct("fromJSON", p)

\* recs[i].calculateDuration()
DoCalculateDuration(i) ==
  /\ LET r == CalculateDuration(recs[i], now)
     IN /\ recs' = [recs EXCEPT ![i] = r.obj]
        /\ last' = Call("calculateDuration", i, EmptyPayload, r.ret, FALSE)
  /\ UNCHANGED <<arrs, now, regions, store>>

\* recs[i].calculateIntensity()
DoCalculateIntensity(i) ==
  /\ LET r == CalculateIntensity(recs[i], arrs)
     IN /\ recs' = [recs EXCEPT ![i] = r.obj]
        /\ last' = Call("calculateIntensity", i, EmptyPayload, r.ret, r.raised)
  /\ UNCHANGED <<arrs, now, regions, store>>

\* AlertUtils.mergeAlertData(recs[i], u), u materialized first
Merge(i, u) ==
  /\ Len(recs) < MaxRecs
  /\ LET m == Materialize(u, arrs)
         r == MergeAlertData(recs, i, m.data, m.arrs, now)
     IN /\ recs' = r.recs
        /\ arrs' = r.arrs
        /\ last' = Call("mergeAlertData", i, u,
                        IF r.raised THEN Undefined ELSE ObjRef(r.ref), r.raised)
  /\ UNCHANGED <<now, regions, store>>

\* the map's processedAlerts for the payload of one region: construct, then
\* calculateDuration, then calculateIntensity
ProcessAlert(p) ==
  /\ Len(recs) < MaxRecs
  /\ LET m == Materialize(p, arrs)
         made == NewAlertData(m.data, m.arrs, now)
         r == CalculateIntensity(CalculateDuration(made.obj, now).obj, made.arrs)
     IN /\ recs' = IF r.raised THEN recs ELSE Append(recs, r.obj)
        /\ arrs' = made.arrs
        /\ last' = Call("processedAlerts", 0, p,
                        IF r.raised THEN Undefined ELSE ObjRef(Len(recs) + 1), r.raised)
  /\ UNCHANGED <<now, regions, store>>

\* time passes
Tick(clock) ==
  /\ \E t \in clock : t > now /\ now' = t
  /\ UNCHANGED <<recs, arrs, regions, last, store>>

\* AlertUtils.sortByAlertPriority(regions).  When the comparator raises, the list is
\* left as the engine had it: untouched (the sort works on the side) or as far as
\* the sort had come
Sort ==
  /\ LET r == SortByAlertPriority(regions, recs, arrs)
     IN /\ regions' \in (IF r.raised THEN {regions, r.seq} ELSE {r.seq})
        /\ last' = Call("sortByAlertPriority", 0, EmptyPayload,
                        IF r.raised THEN Undefined ELSE [t |-> "list", v |-> r.seq], r.raised)
  /\ UNCHANGED <<recs, arrs, now, store>>

(***************************************************************************)
(* Lifecycle of one region's record: the raw payload becomes a record      *)
(* (constructor, fromJSON or the map's processing), and each later update  *)
(* is merged into the newest record, as time passes.                       *)
(***************************************************************************)
Init ==
  /\ recs = << >>
  /\ arrs = << >>
  /\ now \in ClockValues
  /\ regions = << >>
  /\ last = NoCall
  /\ store = NoStore

Next ==
  \/ recs = << >> /\ New
  \/ recs = << >> /\ FromJSON
  \/ recs = << >> /\ \E p \in Payloads : ProcessAlert(p)
  \/ recs # << >> /\ \E u \in Payloads : Merge(Len(recs), u)
  \/ Tick(ClockValues)

Spec == Init /\ [][Next]_vars

(***************************************************************************)
(* Records built from payloads by the constructor, as the initial states   *)
(* of the specifications of single operations.                             *)
(***************************************************************************)
RECURSIVE Built(_, _, _, _)
Built(ps, objs, heap, clock) ==
  IF ps = << >>
    THEN [recs |-> objs, arrs |-> heap]
    ELSE LET m == Materialize(Head(ps), heap)
             made == NewAlertData(m.data, m.arrs, clock)
         IN Built(Tail(ps), Append(objs, made.obj), made.arrs, clock)

\* a payload of the given keys with absent (undefined) values left out
Payload(p) == [key \in {k \in DOMAIN p : p[k].t # "undefined"} |-> p[key]]

(***************************************************************************)
(* calculateIntensity alone, on a record of any threat list and any stored *)
(* duration.                                                               *)
(***************************************************************************)
\* stored durations: around each bonus threshold (6, 24, 72 hours), none, the
\* negative breakdown of an end before the start, and that of an unparsable time
StoredDurations ==
  {ZeroDuration,
   DurationObj(Num(0), Num(6), Num(59)), DurationObj(Num(0), Num(7), Num(0)),
   DurationObj(Num(1), Num(0), Num(59)), DurationObj(Num(1), Num(1), Num(0)),
   DurationObj(Num(3), Num(0), Num(0)), DurationObj(Num(3), Num(1), Num(5)),
   DurationObj(Num(-1), Num(-2), Num(-30)), DurationObj(NaN, NaN, NaN)}

InitIntensity ==
  /\ \E threats \in TokenSeqs(MaxThreats), d \in StoredDurations :
       LET b == Built(<<[threatTypes |-> ArrLit(threats), duration |-> d]>>, << >>, << >>, 0)
       IN recs = b.recs /\ arrs = b.arrs
  /\ now = 0
  /\ regions = << >>
  /\ last = NoCall
  /\ store = NoStore

NextIntensity == \E i \in DOMAIN recs : DoCalculateIntensity(i)

SpecIntensity == InitIntensity /\ [][NextIntensity]_vars

(***************************************************************************)
(* calculateDuration alone, as the clock advances.                         *)
(***************************************************************************)
\* start times: unset, an instant of the first two days, or unparsable
StartTimes == {Undefined, Garbage} \cup {Iso(t) : t \in {i \in Instants : i < 2 * MsPerDay}}

\* end times: unset (null), any instant, or unparsable
EndTimes == {Null, Garbage} \cup {Iso(t) : t \in Instants}

InitDuration ==
  /\ \E s \in StartTimes, e \in EndTimes,
        d \in {Undefined, DurationObj(Num(3), Num(1), Num(5))} :
       LET b == Built(<<Payload([startTime |-> s, endTime |-> e, duration |-> d])>>,
                      << >>, << >>, 0)
       IN recs = b.recs /\ arrs = b.arrs
  /\ now \in Instants
  /\ regions = << >>
  /\ last = NoCall
  /\ store = NoStore

NextDuration ==
  \/ \E i \in DOMAIN recs : DoCalculateDuration(i)
  \/ Tick(Instants)

SpecDuration == InitDuration /\ [][NextDuration]_vars

(***************************************************************************)
(* sortByAlertPriority on a list of records.                               *)
(***************************************************************************)
\* records to rank: critical by level, critical by threat, or not critical, of
\* two intensities and two durations
SortPayloads ==
  {[alertLevel |-> Str(level), threatTypes |-> ArrLit(<<"drones">>),
    intensity |-> Num(n), duration |-> d] :
      level \in {"high", "critical"}, n \in {60, 95},
      d \in {DurationObj(Num(0), Num(2), Num(0)), DurationObj(Num(1), Num(0), Num(0))}}
    \cup {[alertLevel |-> Str("high"), threatTypes |-> ArrLit(<<"ballistic_missiles">>),
           intensity |-> Num(60), duration |-> DurationObj(Num(0), Num(2), Num(0))]}

InitSort ==
  /\ \E n \in 0..MaxRegions : \E ps \in [1..n -> SortPayloads] :
       LET b == Built(ps, << >>, << >>, 0)
       IN recs = b.recs /\ arrs = b.arrs /\ regions = [k \in 1..n |-> k]
  /\ now = 0
  /\ last = NoCall
  /\ store = NoStore

NextSort == Sort

SpecSort == InitSort /\ [][NextSort]_vars

(***************************************************************************)
(* Serialization: toJSON of a record, and fromJSON of the result.          *)
(***************************************************************************)
\* AlertData.fromJSON(recs[i].toJSON())
RoundTrip(i) ==
  /\ Len(recs) < MaxRecs
  /\ LET made == NewAlertData(ToJSON(recs[i]), arrs, now)
     IN /\ recs' = Append(recs, made.obj)
        /\ arrs' = made.arrs
        /\ last' = Call("roundTrip", i, EmptyPayload, ObjRef(Len(recs) + 1), FALSE)
  /\ UNCHANGED <<now, regions, store>>

\* threat lists of the records serialized: none, known, unknown, inherited
RoundTripThreats == {<< >>, <<"drones">>, <<"nuclear", "laser">>, <<"constructor">>}

\* the record serialized is one the constructor built from a payload, as it is or
\* after the map's processing (calculateDuration, then calculateIntensity)
InitRoundTrip ==
  /\ now \in ClockValues
  /\ \E threats \in RoundTripThreats, s \in {Undefined, Iso(0)},
        e \in {Undefined, Iso(30 * MsPerMinute)}, a \in {Undefined, Bool(TRUE)},
        n \in {Undefined, Num(150)}, level \in {Undefined, Str("high")},
        processed \in BOOLEAN :
       LET b == Built(<<Payload([threatTypes |-> ArrLit(threats), startTime |-> s,
                                 endTime |-> e, isActive |-> a, intensity |-> n,
                                 alertLevel |-> level])>>, << >>, << >>, now)
           r == CalculateIntensity(CalculateDuration(b.recs[1], now).obj, b.arrs)
       IN /\ recs = IF processed THEN <<r.obj>> ELSE b.recs
          /\ arrs = b.arrs
  /\ regions = << >>
  /\ last = NoCall
  /\ store = NoStore

NextRoundTrip ==
  \/ RoundTrip(Len(recs))
  \/ Tick(ClockValues)

SpecRoundTrip == InitRoundTrip /\ [][NextRoundTrip]_vars

(***************************************************************************)
(* Display: getPrimaryThreat and getColor of a record.                     *)
(***************************************************************************)
\* recs[i].getPrimaryThreat()
DoGetPrimaryThreat(i) ==
  /\ last' = Call("getPrimaryThreat", i, EmptyPayload, GetPrimaryThreat(recs[i], arrs), FALSE)
  /\ UNCHANGED <<recs, arrs, now, regions, store>>

\* recs[i].getColor()
DoGetColor(i) ==
  /\ last' = Call("getColor", i, EmptyPayload, GetColor(recs[i], arrs), FALSE)
  /\ UNCHANGED <<recs, arrs, now, regions, store>>

\* stored intensities: none, and one in each band of the fallback colours
DisplayIntensities == {Undefined, Num(30), Num(50), Num(70), Num(90)}

\* the record displayed: any threat list, ended or not, of any level and intensity
InitDisplay ==
  /\ \E threats \in TokenSeqs(MaxThreats), e \in {Undefined, Iso(30 * MsPerMinute)},
        level \in {Undefined, Str("high")}, n \in DisplayIntensities,
        a \in {Undefined, Bool(TRUE)} :
       LET b == Built(<<Payload([threatTypes |-> ArrLit(threats), startTime |-> Iso(0),
                                 endTime |-> e, alertLevel |-> level, intensity |-> n,
                                 isActive |-> a])>>, << >>, << >>, 0)
       IN recs = b.recs /\ arrs = b.arrs
  /\ now = 0
  /\ regions = << >>
  /\ last = NoCall
  /\ store = NoStore

NextDisplay ==
  \/ \E i \in DOMAIN recs : DoGetPrimaryThreat(i)
  \/ \E i \in DOMAIN recs : DoGetColor(i)

SpecDisplay == InitDisplay /\ [][NextDisplay]_vars

(***************************************************************************)
(* Callers of mergeAlertData: a store of one record per region and two     *)
(* updaters.  An updater reads the stored record of a region, merges its   *)
(* update into it with AlertUtils.mergeAlertData, and writes the result    *)
(* back; the steps of the two updaters interleave freely.                  *)
(***************************************************************************)
StoreKeys == {"kyiv", "lviv"}

Updaters == {1, 2}

\* the partial updates the updaters bring
StoreUpdates ==
  {OneKey("regionName", Str("Lvivska")),
   OneKey("alertLevel", Str("critical")),
   OneKey("threatTypes", ArrLit(<<"nuclear", "laser">>))}

\* an updater that has not read yet
Idle ==
  [pc |-> "idle", key |-> "", update |-> EmptyPayload, snap |-> 0,
   seen |-> [recs |-> << >>, arrs |-> << >>], res |-> 0]

\* updater u reads the stored record of region key: it holds the reference; seen
\* remembers the heaps as they were at the read
Read(u, key) ==
  /\ store.upd[u].pc = "idle"
  /\ store' = [store EXCEPT !.upd[u] =
                 [@ EXCEPT !.pc = "read", !.key = key, !.snap = store.held[key],
                           !.seen = [recs |-> recs, arrs |-> arrs]]]
  /\ UNCHANGED <<recs, arrs, now, regions, last>>

\* updater u merges its update into the record it read
MergeRead(u, update) ==
  /\ store.upd[u].pc = "read"
  /\ LET m == Materialize(update, arrs)
         r == MergeAlertData(recs, store.upd[u].snap, m.data, m.arrs, now)
     IN /\ recs' = r.recs
        /\ arrs' = r.arrs
        /\ last' = Call("mergeAlertData", store.upd[u].snap, update,
                        IF r.raised THEN Undefined ELSE ObjRef(r.ref), r.raised)
        /\ store' = [store EXCEPT !.upd[u] =
                       [@ EXCEPT !.pc = "merged", !.update = update, !.res = r.ref]]
  /\ UNCHANGED <<now, regions>>

\* updater u writes its merged record back, whatever the store holds by now
Write(u) ==
  /\ store.upd[u].pc = "merged"
  /\ store' = [store EXCEPT !.held[store.upd[u].key] = store.upd[u].res,
                            !.writer[store.upd[u].key] = u,
                            !.upd[u].pc = "done"]
  /\ UNCHANGED <<recs, arrs, now, regions, last>>

\* the store holds a running alert for each region
InitStore ==
  /\ now \in ClockValues
  /\ \E level \in {"high", "medium"} :
       LET b == Built(<<[regionId |-> Str("kyiv"), regionName |-> Str("Kyivska"),
                         alertLevel |-> Str(level), threatTypes |-> ArrLit(<<"drones">>),
                         startTime |-> Iso(0), isActive |-> Bool(TRUE)],
                        [regionId |-> Str("lviv"), regionName |-> Str("Lviv"),
                         alertLevel |-> Str(level), threatTypes |-> ArrLit(<<"air_raid">>),
                         startTime |-> Iso(MsPerHour), isActive |-> Bool(TRUE)]>>,
                      << >>, << >>, now)
       IN recs = b.recs /\ arrs = b.arrs
  /\ regions = << >>
  /\ last = NoCall
  /\ store = [held |-> [key \in StoreKeys |-> IF key = "kyiv" THEN 1 ELSE 2],
              writer |-> [key \in StoreKeys |-> 0],
              upd |-> [u \in Updaters |-> Idle]]

NextStore ==
  \/ \E u \in Updaters, key \in StoreKeys : Read(u, key)
  \/ \E u \in Updaters, update \in StoreUpdates : MergeRead(u, update)
  \/ \E u \in Updaters : Write(u)

SpecStore == InitStore /\ [][NextStore]_vars

(***************************************************************************)
(* Records merged from one another, and a holder of one of them changing   *)
(* that record's threatTypes array in place.                               *)
(***************************************************************************)
\* recs[i].threatTypes.push(tok) by the holder of recs[i]
PushThreat(i, tok) ==
  /\ Len(arrs[recs[i].threatTypes.ref]) < MaxThreats
  /\ arrs' = [arrs EXCEPT ![recs[i].threatTypes.ref] = Append(@, tok)]
  /\ last' = Call("push", i, EmptyPayload,
                  Num(Len(arrs[recs[i].threatTypes.ref]) + 1), FALSE)
  /\ UNCHANGED <<recs, now, regions, store>>

\* updates merged: nothing, a new level, a new threat list
AliasUpdates ==
  {EmptyPayload, OneKey("alertLevel", Str("critical")),
   OneKey("threatTypes", ArrLit(<<"cruise_missiles">>))}

InitAlias ==
  /\ now \in ClockValues
  /\ \E p \in {EmptyPayload, [threatTypes |-> ArrLit(<<"drones">>)],
                [threatTypes |-> ArrLit(<<"drones">>), startTime |-> Iso(0)]} :
       LET b == Built(<<p>>, << >>, << >>, now)
       IN recs = b.recs /\ arrs = b.arrs
  /\ regions = << >>
  /\ last = NoCall
  /\ store = NoStore

NextAlias ==
  \/ \E u \in AliasUpdates : Merge(Len(recs), u)
  \/ \E i \in DOMAIN recs : PushThreat(i, "nuclear")

SpecAlias == InitAlias /\ [][NextAlias]_vars

(***************************************************************************)
(* The alert episode of one region: a record with no alert or a running    *)
(* one, and the updates that start, change and end the alert, merged one   *)
(* after the other as time passes.                                         *)
(***************************************************************************)
\* updates of an episode: the alert starts, its threats change, its start time is
\* given as null, as undefined or anew, a stale intensity arrives, the alert ends
EpisodeUpdates ==
  {ActivePayload, EndedPayload,
   OneKey("threatTypes", ArrLit(<<"nuclear", "laser">>)),
   OneKey("threatTypes", ArrLit(<< >>)),
   OneKey("startTime", Null),
   OneKey("startTime", Undefined),
   OneKey("startTime", Iso(MsPerHour)),
   OneKey("intensity", Num(150))}

InitEpisode ==
  /\ now \in ClockValues
  /\ \E p \in {EmptyPayload, ActivePayload} :
       LET b == Built(<<p>>, << >>, << >>, now)
       IN recs = b.recs /\ arrs = b.arrs
  /\ regions = << >>
  /\ last = NoCall
  /\ store = NoStore

NextEpisode ==
  \/ \E u \in EpisodeUpdates : Merge(Len(recs), u)
  \/ Tick(ClockValues)

SpecEpisode == InitEpisode /\ [][NextEpisode]_vars

(***************************************************************************)
(* The map's processedAlerts over the whole collection of raw payloads,    *)
(* one per region, in the order of the collection's keys.                  *)
(***************************************************************************)
\* the forEach of processedAlerts over the payloads ps: for each, new AlertData,
\* calculateDuration, calculateIntensity, and the record is entered in `out`.  The
\* constructor reads data.regionId, which raises a TypeError on null; a raise ends
\* the forEach and nothing is returned
RECURSIVE ProcessedAlerts(_, _, _, _, _)
ProcessedAlerts(ps, objs, heap, out, clock) ==
  IF ps = << >>
    THEN [raised |-> FALSE, recs |-> objs, arrs |-> heap, out |-> out]
    ELSE IF Head(ps) = Null
      THEN [raised |-> TRUE, recs |-> objs, arrs |-> heap, out |-> out]
      ELSE LET m == Materialize(Head(ps), heap)
               made == NewAlertData(m.data, m.arrs, clock)
               r == CalculateIntensity(CalculateDuration(made.obj, clock).obj, made.arrs)
           IN IF r.raised
                THEN [raised |-> TRUE, recs |-> Append(objs, r.obj), arrs |-> made.arrs,
                      out |-> out]
                ELSE ProcessedAlerts(Tail(ps), Append(objs, r.obj), made.arrs,
                                     Append(out, Len(objs) + 1), clock)

\* raw payloads of a collection: two well-formed ones, none at all (the default
\* {}), null, a threatTypes that is a string, and an unparsable startTime
CollectionPayloads ==
  {ActivePayload,
   [regionId |-> Str("lviv"), threatTypes |-> ArrLit(<<"air_raid">>),
    startTime |-> Iso(MsPerHour)],
   EmptyPayload,
   Null,
   [regionId |-> Str("odesa"), threatTypes |-> Str("drones")],
   [regionId |-> Str("kharkiv"), threatTypes |-> ArrLit(<<"drones">>), startTime |-> Garbage]}

\* a collection of raw payloads
Collection(ps) == [t |-> "collection", v |-> ps]

\* processedAlerts on the collection ps
ProcessAlerts(ps) ==
  /\ recs = << >>
  /\ LET r == ProcessedAlerts(ps, recs, arrs, << >>, now)
     IN /\ recs' = r.recs
        /\ arrs' = r.arrs
        /\ last' = Call("processedAlerts.forEach", 0, Collection(ps),
                        IF r.raised THEN Undefined ELSE [t |-> "list", v |-> r.out], r.raised)
  /\ UNCHANGED <<now, regions, store>>

InitCollection ==
  /\ recs = << >>
  /\ arrs = << >>
  /\ now \in ClockValues
  /\ regions = << >>
  /\ last = NoCall
  /\ store = NoStore

NextCollection ==
  \E n \in 1..MaxRegions : \E ps \in [1..n -> CollectionPayloads] : ProcessAlerts(ps)

SpecCollection == InitCollection /\ [][NextCollection]_vars

(***************************************************************************)
(* The predicates isCritical and requiresImmediateAttention on a record.   *)
(***************************************************************************)
\* recs[i].isCritical()
DoIsCritical(i) ==
  /\ last' = Call("isCritical", i, EmptyPayload, Bool(IsCritical(recs[i], arrs)), FALSE)
  /\ UNCHANGED <<recs, arrs, now, regions, store>>

\* AlertUtils.requiresImmediateAttention(recs[i])
DoRequiresImmediateAttention(i) ==
  /\ last' = Call("requiresImmediateAttention", i, EmptyPayload,
                  Bool(RequiresImmediateAttention(recs[i], arrs)), FALSE)
  /\ UNCHANGED <<recs, arrs, now, regions, store>>

\* threat tokens of the records tested: the three the predicates name, a known one
\* they do not name, and an unknown one
CriticalTokens == {"ballistic_missiles", "nuclear", "cruise_missiles", "drones", "laser"}

\* alert levels of the records tested: the default, 'critical', and two others
CriticalLevels == {Undefined, Str("high"), Str("critical"), Str("ballistic")}

InitCritical ==
  /\ \E n \in 0..MaxThreats : \E threats \in [1..n -> CriticalTokens] :
       \E level \in CriticalLevels :
         LET b == Built(<<Payload([threatTypes |-> ArrLit(threats), alertLevel |-> level])>>,
                        << >>, << >>, 0)
         IN recs = b.recs /\ arrs = b.arrs
  /\ now = 0
  /\ regions = << >>
  /\ last = NoCall
  /\ store = NoStore

NextCritical ==
  \/ \E i \in DOMAIN recs : DoIsCritical(i)
  \/ \E i \in DOMAIN recs : DoRequiresImmediateAttention(i)

SpecCritical == InitCritical /\ [][NextCritical]_vars

(***************************************************************************)
(* The colour of a record whose intensity calculateIntensity has computed: *)
(* calculateIntensity, then getColor, on a record of any threat list and   *)
(* stored duration.                                                        *)
(***************************************************************************)
InitColor ==
  /\ \E threats \in TokenSeqs(MaxThreats), d \in StoredDurations,
        level \in {Undefined, Str("high")} :
       LET b == Built(<<Payload([threatTypes |-> ArrLit(threats), duration |-> d,
                                 alertLevel |-> level])>>, << >>, << >>, 0)
       IN recs = b.recs /\ arrs = b.arrs
  /\ now = 0
  /\ regions = << >>
  /\ last = NoCall
  /\ store = NoStore

NextColor ==
  \/ \E i \in DOMAIN recs : DoCalculateIntensity(i)
  \/ \E i \in DOMAIN recs : DoGetColor(i)

SpecColor == InitColor /\ [][NextColor]_vars

(***************************************************************************)
(* The level of an intensity: getAlertLevelFromIntensity on every whole    *)
(* number of the 0-100 scale and on the intensity of a record, before and  *)
(* after calculateIntensity has computed it.                               *)
(***************************************************************************)
IntensityScale == {Num(n) : n \in 0..100}

\* AlertUtils.getAlertLevelFromIntensity(x), x on the scale or the intensity of recs[i]
DoGetAlertLevelFromIntensity(i, x) ==
  /\ last' = Call("getAlertLevelFromIntensity", i, x, GetAlertLevelFromIntensity(x), FALSE)
  /\ UNCHANGED <<recs, arrs, now, regions, store>>

\* stored durations: none, and one past each bonus threshold (6, 24, 72 hours)
LevelDurations ==
  {ZeroDuration, DurationObj(Num(0), Num(7), Num(0)), DurationObj(Num(1), Num(1), Num(0)),
   DurationObj(Num(3), Num(1), Num(5))}

\* threat lists of two known types, an unknown token and an inherited property name
LevelThreats ==
  UNION {[1..k -> {"drones", "street_fighting", "laser", "constructor"}] : k \in 0..MaxThreats}

InitLevel ==
  /\ \E threats \in LevelThreats, d \in LevelDurations :
       LET b == Built(<<Payload([threatTypes |-> ArrLit(threats), duration |-> d])>>,
                      << >>, << >>, 0)
       IN recs = b.recs /\ arrs = b.arrs
  /\ now = 0
  /\ regions = << >>
  /\ last = NoCall
  /\ store = NoStore

NextLevel ==
  \/ \E i \in DOMAIN recs : DoCalculateIntensity(i)
  \/ \E i \in DOMAIN recs :
       \E x \in IntensityScale \cup {recs[i].intensity} : DoGetAlertLevelFromIntensity(i, x)

SpecLevel == InitLevel /\ [][NextLevel]_vars

(***************************************************************************)
(* Properties of the derivation, the merge and the ranking.                 *)
(***************************************************************************)
\* the object a call worked on, before the call and now
Before == last.pre.recs[last.self]
After == recs[last.self]
\* the object a constructing call (new, fromJSON, processedAlerts, merge) returned
Returned == recs[last.ret.ref]
\* the elements of the threatTypes array of obj
ThreatsOf(obj) == arrs[obj.threatTypes.ref]

Unset(x) == x.t \in {"null", "undefined"}

\* C1: every record the constructor, fromJSON or mergeAlertData produces has isActive
\* true exactly when its endTime is unset and its threatTypes is not empty
C1_IsActiveDerived ==
  \A k \in DOMAIN recs :
    StrictEq(recs[k].isActive, Bool(TRUE))
      <=> (Unset(recs[k].endTime) /\ ThreatsOf(recs[k]) # << >>)

\* the third ranking key: total elapsed minutes
TotalMinutes(obj) == obj.duration.days.v * 1440 + obj.duration.hours.v * 60 + obj.duration.minutes.v

IsPermutationOf(a, b) ==
  /\ Len(a) = Len(b)
  /\ \A x \in 1..Len(recs) :
       Cardinality({k \in 1..Len(a) : a[k] = x}) = Cardinality({k \in 1..Len(b) : b[k] = x})

\* critical first, then intensity descending, then elapsed minutes descending
Ranked(list) ==
  \A i, j \in 1..Len(list) :
    i < j =>
      LET a == recs[list[i]]
          b == recs[list[j]]
      IN /\ IsCritical(b, arrs) => IsCritical(a, arrs)
         /\ (IsCritical(a, arrs) <=> IsCritical(b, arrs)) => a.intensity.v >= b.intensity.v
         /\ ((IsCritical(a, arrs) <=> IsCritical(b, arrs)) /\ a.intensity.v = b.intensity.v)
              => TotalMinutes(a) >= TotalMinutes(b)

\* C2: sortByAlertPriority completes without raising on every list of AlertData
\* records and returns a permutation of it, ranked by criticality, then intensity,
\* then total elapsed minutes
C2_SortCompletesRanked ==
  last.op = "sortByAlertPriority" =>
    /\ ~last.raised
    /\ IsPermutationOf(last.ret.v, last.pre.regions)
    /\ Ranked(last.ret.v)

\* C3: after calculateIntensity the returned and the stored intensity are one
\* integer in 0..100, whatever the threat list and the stored duration
C3_IntensityInRange ==
  last.op = "calculateIntensity" =>
    /\ ~last.raised
    /\ IsNum(last.ret) /\ 0 <= last.ret.v /\ last.ret.v <= 100
    /\ After.intensity = last.ret

\* how often tok occurs in seq
Count(seq, tok) == Cardinality({k \in 1..Len(seq) : seq[k] = tok})

RECURSIVE WeightedSum(_, _)
WeightedSum(toks, seq) ==
  IF toks = {} THEN 0
  ELSE LET tok == CHOOSE x \in toks : TRUE
       IN Count(seq, tok) * ThreatMetadata[tok].priority * 10 + WeightedSum(toks \ {tok}, seq)

\* S: priority * 10 summed over the members with a table entry; one
\* member that resolves to something with no priority makes the sum not a number
ClaimedS(seq) ==
  IF \E k \in 1..Len(seq) : seq[k] \in InheritedKeys
    THEN NaN ELSE Num(WeightedSum(DOMAIN ThreatMetadata, seq))

\* B: the bonus for days * 24 + hours, when that is a number
ClaimedB(d) ==
  IF ~(IsNum(d.days) /\ IsNum(d.hours)) THEN 0
  ELSE LET h == d.days.v * 24 + d.hours.v
       IN IF h > 72 THEN 20 ELSE IF h > 24 THEN 10 ELSE IF h > 6 THEN 5 ELSE 0

ClaimedIntensity(seq, d) ==
  LET S == ClaimedS(seq)
  IN IF IsNum(S) THEN (IF S.v + ClaimedB(d) < 100 THEN Num(S.v + ClaimedB(d)) ELSE Num(100))
     ELSE NaN

\* every reordering of seq
Reorderings(seq) ==
  {[k \in 1..Len(seq) |-> seq[f[k]]] : f \in Permutations(1..Len(seq))}

EndOf(obj, clock) == IF Truthy(obj.endTime) THEN DateParse(obj.endTime) ELSE Num(clock)

\* a call of calculateDuration on a record whose start and end are instants
TimedCall ==
  /\ last.op = "calculateDuration"
  /\ Before.startTime.t = "isodate"
  /\ IsNum(EndOf(Before, last.clock))

\* C5: with startTime set and end >= start, calculateDuration stores and returns
\* {days, hours, minutes} whose total is the elapsed milliseconds in whole minutes,
\* truncated, with 0 <= hours < 24 and 0 <= minutes < 60
C5_DurationBreakdown ==
  (TimedCall /\ EndOf(Before, last.clock).v >= Before.startTime.ms) =>
    LET d == last.ret
        elapsed == EndOf(Before, last.clock).v - Before.startTime.ms
    IN /\ After.duration = d
       /\ IsNum(d.days) /\ IsNum(d.hours) /\ IsNum(d.minutes)
       /\ d.days.v * 1440 + d.hours.v * 60 + d.minutes.v = elapsed \div (60 * 1000)
       /\ 0 <= d.days.v
       /\ 0 <= d.hours.v /\ d.hours.v < 24
       /\ 0 <= d.minutes.v /\ d.minutes.v < 60

\* C5's case: an alert still running (endTime unset) for 1 day 6 h 59 min 59 s
C5_Witness ==
  /\ TimedCall
  /\ Unset(Before.endTime)
  /\ last.clock - Before.startTime.ms = MsPerDay + 6 * MsPerHour + 59 * MsPerMinute + 59 * 1000
  /\ After.duration = DurationObj(Num(1), Num(6), Num(59))

Negative(x) == IsNum(x) /\ x.v < 0

\* C6: when the end instant is earlier than startTime, calculateDuration yields
\* days = hours = minutes = 0, and no computed component is ever negative
C6_EndBeforeStartIsZero ==
  /\ (TimedCall /\ EndOf(Before, last.clock).v < Before.startTime.ms) =>
       (last.ret = ZeroDuration /\ After.duration = ZeroDuration)
  /\ last.op = "calculateDuration" =>
       ~(Negative(last.ret.days) \/ Negative(last.ret.hours) \/ Negative(last.ret.minutes))

\* C7: a record with startTime unset has the stored duration {0, 0, 0} after
\* calculateDuration, after mergeAlertData and after the map's processing, whatever
\* duration the payload or the update carried
C7_NoStartZeroDuration ==
  /\ (last.op = "calculateDuration" /\ Unset(After.startTime)) =>
       After.duration = ZeroDuration
  /\ (last.op \in {"mergeAlertData", "processedAlerts"} /\ ~last.raised
        /\ Unset(Returned.startTime)) =>
       Returned.duration = ZeroDuration

\* C8: the record mergeAlertData returns has the regionId of the existing record,
\* whatever the update carries
C8_MergeKeepsRegionId ==
  (last.op = "mergeAlertData" /\ ~last.raised) => Returned.regionId = Before.regionId

\* C9: mergeAlertData leaves every object and every array that existed before the
\* call as it was (the existing record and its threatTypes, duration and intensity
\* among them) and returns an object that did not exist before
C9_MergeLeavesExisting ==
  last.op = "mergeAlertData" =>
    /\ \A k \in DOMAIN last.pre.recs : recs[k] = last.pre.recs[k]
    /\ \A k \in DOMAIN last.pre.arrs : arrs[k] = last.pre.arrs[k]
    /\ ~last.raised => (last.ret.ref # last.self /\ last.ret.ref \notin DOMAIN last.pre.recs)

\* C9's case: a merge whose update changed the threats, so that the record returned
\* differs from the existing one in threatTypes and in intensity
C9_Witness ==
  /\ last.op = "mergeAlertData"
  /\ ~last.raised
  /\ Present(last.arg, "threatTypes")
  /\ ThreatsOf(Returned) # ThreatsOf(Before)
  /\ Returned.intensity # Before.intensity
  /\ Before.intensity = Num(150)

\* key of the merged record holds the update's value when that is
\* neither null nor undefined, and else the existing record's
TakesUpdateOrExisting(key) ==
  IF Present(last.arg, key)
    THEN IF last.arg[key].t = "arrayLiteral"
           THEN arrs[Returned[key].ref] = last.arg[key].v
           ELSE Returned[key] = last.arg[key]
    ELSE Returned[key] = Before[key]

\* C10: the merged record has the update's value for every key the update gives a
\* value, the existing record's otherwise; its duration and intensity are the ones
\* calculateDuration and calculateIntensity compute from the merged startTime,
\* endTime and threatTypes, never the ones the update carried
C10_MergeResult ==
  (last.op = "mergeAlertData" /\ ~last.raised) =>
    LET computed == CalculateDuration(Returned, last.clock).ret
    IN /\ \A key \in Fields \ {"duration", "intensity"} : TakesUpdateOrExisting(key)
       /\ Returned.duration = computed
       /\ Returned.intensity =
            CalculateIntensity([Returned EXCEPT !.duration = computed], arrs).ret

\* a and b agree field by field; an array field agrees when the two arrays hold the
\* same elements in the same order
SameFields(a, heapA, b, heapB) ==
  \A key \in Fields :
    /\ a[key].t = b[key].t
    /\ IF a[key].t = "array" THEN heapA[a[key].ref] = heapB[b[key].ref] ELSE a[key] = b[key]

\* mergeAlertData(Returned, u) for the update u of the last call, at the same clock
MergedAgain ==
  LET m == Materialize(last.arg, arrs)
  IN MergeAlertData(recs, last.ret.ref, m.data, m.arrs, last.clock)

C12_IntensityRecomputed ==
  (last.op \in {"new", "fromJSON", "mergeAlertData"} /\ ~last.raised) =>
    /\ IsNum(Returned.intensity)
    /\ 0 <= Returned.intensity.v /\ Returned.intensity.v <= 100
    /\ Returned.intensity = CalculateIntensity(Returned, arrs).ret

\* a record whose fields have the types of the data model: strings, arrays, instants
\* or null, a duration of numbers, a numeric intensity, a boolean isActive
Valid(obj) ==
  /\ \A key \in {"regionId", "regionName", "regionNameEn", "alertLevel"} :
       obj[key].t = "string"
  /\ obj.alertLevel.v \in AlertLevel
  /\ obj.threatTypes.t = "array" /\ obj.subRegions.t = "array"
  /\ obj.startTime.t \in {"null", "isodate"} /\ obj.endTime.t \in {"null", "isodate"}
  /\ obj.duration.t = "object"
  /\ IsNum(obj.duration.days) /\ IsNum(obj.duration.hours) /\ IsNum(obj.duration.minutes)
  /\ IsNum(obj.intensity)
  /\ obj.isActive.t = "boolean"
  /\ obj.lastUpdated.t = "isodate"

\* duration and intensity of obj after calculateDuration and calculateIntensity at
\* the clock reading `clock`
Recomputed(obj, clock) ==
  LET r == CalculateIntensity(CalculateDuration(obj, clock).obj, arrs)
  IN [duration |-> r.obj.duration, intensity |-> r.obj.intensity]

\* C13: for a valid record r, fromJSON(r.toJSON()) has every field equal to r's, and
\* recomputing duration and intensity of both at one instant gives equal values
C13_RoundTrip ==
  (last.op = "roundTrip" /\ Valid(Before)) =>
    /\ After = Before
    /\ SameFields(Returned, arrs, Before, arrs)
    /\ Recomputed(Returned, now) = Recomputed(Before, now)

\* C13's case: a running alert with threats, a stale stored intensity and isActive
\* true is serialized and read back a day later
C13_Witness ==
  /\ last.op = "roundTrip"
  /\ Valid(Before)
  /\ Before.isActive = Bool(TRUE)
  /\ Before.intensity = Num(150)
  /\ Before.startTime = Iso(0) /\ Unset(Before.endTime)
  /\ ThreatsOf(Before) = <<"nuclear", "laser">>
  /\ Returned.lastUpdated = Before.lastUpdated
  /\ now > last.clock
  /\ Recomputed(Returned, now).duration = DurationObj(Num(1), Num(2), Num(0))

\* the records a and b tie on all three ranking keys
SameRank(a, b) ==
  /\ IsCritical(a, arrs) <=> IsCritical(b, arrs)
  /\ a.intensity = b.intensity
  /\ TotalMinutes(a) = TotalMinutes(b)

\* where the record x stands in list
PositionOf(list, x) == CHOOSE k \in 1..Len(list) : list[k] = x

\* C14: for any two records of the input list that tie on criticality, intensity
\* and elapsed minutes, sortByAlertPriority returns a list in which they stand in
\* the order they had in the input
C14_SortStable ==
  last.op = "sortByAlertPriority" =>
    \A i, j \in 1..Len(last.pre.regions) :
      (i < j /\ SameRank(recs[last.pre.regions[i]], recs[last.pre.regions[j]])) =>
        /\ ~last.raised
        /\ PositionOf(last.ret.v, last.pre.regions[i])
             < PositionOf(last.ret.v, last.pre.regions[j])

\* C15: after sortByAlertPriority the caller's list holds the records it held before
\* the call, in the same order
C15_SortLeavesArgument ==
  last.op = "sortByAlertPriority" => regions = last.pre.regions

\* active as the data model derives it: threats present and endTime unset
DerivedActive(obj) == Unset(obj.endTime) /\ ThreatsOf(obj) # << >>

\* C16: getColor returns '#ffffff' for every record that is not active (endTime set
\* or threatTypes empty), whatever its alertLevel, and another colour for every
\* active record
C16_ColorNeutralIffInactive ==
  last.op = "getColor" =>
    (StrictEq(last.ret, Str("#ffffff")) <=> ~DerivedActive(Before))

\* the priority a token has by the table: unknown tokens count 0
ClaimedPriority(tok) ==
  IF tok \in DOMAIN ThreatMetadata THEN ThreatMetadata[tok].priority ELSE 0

\* C17: for a non-empty threatTypes, getPrimaryThreat returns the element of
\* maximal table priority (unknown tokens counting 0) that occurs first in the list
C17_PrimaryThreatFirstMax ==
  (last.op = "getPrimaryThreat" /\ ThreatsOf(Before) # << >>) =>
    LET threats == ThreatsOf(Before)
    IN \E k \in 1..Len(threats) :
         /\ last.ret = Str(threats[k])
         /\ \A j \in 1..Len(threats) : ClaimedPriority(threats[j]) <= ClaimedPriority(threats[k])
         /\ \A j \in 1..(k - 1) : ClaimedPriority(threats[j]) < ClaimedPriority(threats[k])

\* C17's case: two different threats of the same, maximal priority; the first wins
C17_Witness ==
  /\ last.op = "getPrimaryThreat"
  /\ ThreatsOf(Before) = <<"air_raid", "ballistic_missiles">>
  /\ last.ret = Str("air_raid")

\* what mergeAlertData makes of the record updater u read, as it was when u read
\* it, and u's update
MergeOfSeen(u) ==
  LET l == store.upd[u]
      m == Materialize(l.update, l.seen.arrs)
      r == MergeAlertData(l.seen.recs, l.snap, m.data, m.arrs, now)
  IN [obj |-> r.recs[r.ref], arrs |-> r.arrs]

\* the records the store held at the start: the first for kyiv, the second for lviv
FirstHeld(key) == IF key = "kyiv" THEN 1 ELSE 2

\* C18: the store holds for every region exactly the record its last writer wrote,
\* which is the merge of that updater's update into the record as the updater read
\* it (no update of the other updater is in it unless it was in the record read);
\* a region no updater has written holds its record unchanged, whatever was merged
\* and written for the other region
C18_LastMergeWins ==
  \A key \in StoreKeys :
    LET w == store.writer[key]
    IN IF w = 0
         THEN /\ store.held[key] = FirstHeld(key)
              /\ \A u \in Updaters :
                   store.upd[u].pc # "idle" =>
                     /\ recs[FirstHeld(key)] = store.upd[u].seen.recs[FirstHeld(key)]
                     /\ ThreatsOf(recs[FirstHeld(key)])
                          = store.upd[u].seen.arrs[recs[FirstHeld(key)].threatTypes.ref]
         ELSE /\ store.held[key] = store.upd[w].res
              /\ SameFields(recs[store.held[key]], arrs,
                            MergeOfSeen(w).obj, MergeOfSeen(w).arrs)

\* C18's case: both updaters read the record of kyiv before either wrote; updater 1
\* wrote a new regionName, then updater 2 wrote a new alertLevel; the store holds
\* updater 2's record, without the regionName of updater 1
C18_Witness ==
  /\ \A u \in Updaters : store.upd[u].pc = "done" /\ store.upd[u].key = "kyiv"
  /\ store.upd[1].snap = 1 /\ store.upd[2].snap = 1
  /\ store.upd[1].update = OneKey("regionName", Str("Lvivska"))
  /\ store.upd[2].update = OneKey("alertLevel", Str("critical"))
  /\ store.writer["kyiv"] = 2
  /\ recs[store.upd[1].res].regionName = Str("Lvivska")
  /\ recs[store.held["kyiv"]].alertLevel = Str("critical")
  /\ recs[store.held["kyiv"]].regionName = Str("Kyivska")
  /\ store.held["lviv"] = 2

\* C19: an in-place change to the threatTypes of one record is not visible through
\* any other record: every other record, the one it was merged from among them,
\* has the threats it had before and derives the intensity it derived before
C19_MergedSharesNothing ==
  last.op = "push" =>
    \A k \in DOMAIN recs \ {last.self} :
      /\ ThreatsOf(recs[k]) = last.pre.arrs[recs[k].threatTypes.ref]
      /\ CalculateIntensity(recs[k], arrs).ret = CalculateIntensity(recs[k], last.pre.arrs).ret

\* a merge of an update into a running alert with a start time that leaves the
\* alert running
ActiveToActive ==
  /\ last.op = "mergeAlertData" /\ ~last.raised
  /\ DerivedActive(Before) /\ ~Unset(Before.startTime)
  /\ DerivedActive(Returned)

WellFormed(payload) ==
  /\ payload # Null
  /\ "threatTypes" \in DOMAIN payload => payload["threatTypes"].t = "arrayLiteral"
  /\ "startTime" \in DOMAIN payload => payload["startTime"].t = "isodate"

\* C21: processedAlerts over a collection of raw payloads completes whatever
\* malformed payloads the collection holds, and every well-formed payload has its
\* record in the result, with its regionId and the duration and intensity derived
\* at the time of the call
C21_CollectionNeverAborts ==
  last.op = "processedAlerts.forEach" =>
    /\ ~last.raised
    /\ \A k \in 1..Len(last.arg.v) :
         WellFormed(last.arg.v[k]) =>
           LET obj == recs[last.ret.v[k]]
           IN /\ obj.regionId = Or(Get(last.arg.v[k], "regionId"), Str(""))
              /\ Recomputed(obj, last.clock)
                   = [duration |-> obj.duration, intensity |-> obj.intensity]

\* C22: calculateDuration on a record whose startTime or endTime is an unparsable
\* timestamp raises nothing and returns and stores {0, 0, 0}, so that
\* calculateIntensity adds no duration bonus
C22_UnparsableIsZero ==
  (last.op = "calculateDuration" /\ (Before.startTime = Garbage \/ Before.endTime = Garbage)) =>
    /\ ~last.raised
    /\ last.ret = ZeroDuration
    /\ After.duration = ZeroDuration
    /\ DurationBonus(After.duration) = 0

\* the members of seq that are keys of ThreatMetadata, in order
Known(seq) == SelectSeq(seq, LAMBDA tok : tok \in DOMAIN ThreatMetadata)

\* C23: calculateIntensity leaves the tokens that are not keys of ThreatMetadata in
\* threatTypes and returns what it returns for the list without them; and when the
\* list holds a known threat type, getPrimaryThreat returns a known one
C23_UnknownTokenCountsZero ==
  last.op = "calculateIntensity" =>
    /\ ThreatsOf(After) = last.pre.arrs[Before.threatTypes.ref]
    /\ last.ret
         = CalculateIntensity(Before, [arrs EXCEPT ![Before.threatTypes.ref] = Known(@)]).ret
    /\ Known(ThreatsOf(After)) # << >> =>
         GetPrimaryThreat(After, arrs).v \in DOMAIN ThreatMetadata

\* days * 1440 + hours * 60 + minutes of a duration of numbers
MinutesOf(d) == d.days.v * 1440 + d.hours.v * 60 + d.minutes.v

\* a call of calculateDuration, recorded in call, on a running alert that has a
\* start instant
RunningCall(call) ==
  /\ call.op = "calculateDuration"
  /\ call.pre.recs[call.self].startTime.t = "isodate"
  /\ Unset(call.pre.recs[call.self].endTime)

\* C24: of two calls of calculateDuration on one record with a fixed startTime and
\* endTime unset, the later one (at a clock that has not gone back) returns at
\* least as many total minutes as the earlier one
C24_DurationMonotone ==
  [][(/\ RunningCall(last) /\ RunningCall(last')
      /\ last'.self = last.self
      /\ last.clock <= last'.clock)
       => MinutesOf(last.ret) <= MinutesOf(last'.ret)]_vars

\* seq has tok among its elements
Contains(seq, tok) == \E k \in 1..Len(seq) : seq[k] = tok

\* the alert level is 'critical', or the threats hold ballistic missiles or nuclear
ClaimedCritical(obj) ==
  \/ (obj.alertLevel.t = "string" /\ obj.alertLevel.v = "critical")
  \/ Contains(ThreatsOf(obj), "ballistic_missiles")
  \/ Contains(ThreatsOf(obj), "nuclear")

\* the call left every record and every array as it was
NothingChanged == recs = last.pre.recs /\ arrs = last.pre.arrs

\* C25: isCritical returns true exactly when alertLevel is 'critical' or threatTypes
\* contains ballistic_missiles or nuclear, and changes no field of the record
C25_IsCritical ==
  last.op = "isCritical" =>
    /\ last.ret = Bool(ClaimedCritical(Before))
    /\ NothingChanged

\* C25's case: a record of level 'high' that is critical by a nuclear threat alone
C25_Witness ==
  /\ last.op = "isCritical"
  /\ Before.alertLevel = Str("high")
  /\ ThreatsOf(Before) = <<"drones", "nuclear">>
  /\ last.ret = Bool(TRUE)

\* C26: requiresImmediateAttention returns true exactly when the record is critical
\* or its threatTypes contains cruise_missiles or ballistic_missiles, and leaves the
\* record unchanged
C26_RequiresImmediateAttention ==
  last.op = "requiresImmediateAttention" =>
    /\ last.ret = Bool(\/ ClaimedCritical(Before)
                       \/ Contains(ThreatsOf(Before), "cruise_missiles")
                       \/ Contains(ThreatsOf(Before), "ballistic_missiles"))
    /\ NothingChanged

\* C26's case: a record that is not critical and needs attention by cruise missiles
C26_Witness ==
  /\ last.op = "requiresImmediateAttention"
  /\ ~ClaimedCritical(Before)
  /\ ThreatsOf(Before) = <<"laser", "cruise_missiles">>
  /\ last.ret = Bool(TRUE)

\* the merge returned a record in which every field that was set (neither null nor
\* undefined) in the existing record is still set
MergeUnsetsNothing ==
  (last.op = "mergeAlertData" /\ ~last.raised) =>
    \A key \in Fields : ~Unset(Before[key]) => ~Unset(Returned[key])

HasTopPriority(seq) ==
  \E k \in 1..Len(seq) :
    seq[k] \in DOMAIN ThreatMetadata /\ ThreatMetadata[seq[k]].priority = 10

\* the intensity calculateIntensity would have given the record with no duration
WithoutBonus(obj) == CalculateIntensity([obj EXCEPT !.duration = ZeroDuration], arrs).ret

\* C28: after calculateIntensity a record with at least two known threat types, or
\* one of priority 10, has intensity exactly 100 whatever its duration; and the
\* duration bonus changes the result only for a record with exactly one known threat
\* type, of priority below 10
C28_Saturation ==
  last.op = "calculateIntensity" =>
    LET known == Known(ThreatsOf(Before))
    IN /\ (Len(known) >= 2 \/ HasTopPriority(known)) =>
            (last.ret = Num(100) /\ After.intensity = Num(100))
       /\ last.ret # WithoutBonus(Before) => (Len(known) = 1 /\ ~HasTopPriority(known))

\* the stored intensity of obj is the one calculateIntensity gives it
Produced(obj) == obj.intensity = CalculateIntensity(obj, arrs).ret

\* getColor on obj passes the test of the primary threat's metadata by and comes to
\* the intensity bands
ReachesFallback(obj) ==
  LET primary == GetPrimaryThreat(obj, arrs)
  IN ~(Truthy(primary) /\ Truthy(MetadataOf(primary.v)))

\* C29: when getColor on a record with an alertLevel other than 'none' and an
\* intensity produced by calculateIntensity comes to the intensity bands, the
\* record's threatTypes holds no known threat type, its intensity is at most 20,
\* and the colour returned is '#ffe0e0'
C29_FallbackIsLightest ==
  (/\ last.op = "getColor"
   /\ ~StrictEq(Before.alertLevel, Str("none"))
   /\ Produced(Before)
   /\ ReachesFallback(Before)) =>
    /\ Known(ThreatsOf(Before)) = << >>
    /\ IsNum(Before.intensity) /\ Before.intensity.v <= 20
    /\ last.ret = Str("#ffe0e0")

\* the level the bands 0, 1..19, 20..39, 40..69, 70..100 give the whole number n
BandOf(n) ==
  CASE n = 0 -> "none"
    [] n \in 1..19 -> "low"
    [] n \in 20..39 -> "medium"
    [] n \in 40..69 -> "high"
    [] n \in 70..100 -> "critical"

\* C30: getAlertLevelFromIntensity gives every whole number from 0 to 100 the level of
\* its band; and given the intensity calculateIntensity produced for a record, it
\* returns 'high' or 'critical' exactly when the record's threatTypes holds a known
\* threat type
C30_LevelBands ==
  last.op = "getAlertLevelFromIntensity" =>
    /\ last.arg \in IntensityScale => last.ret = Str(BandOf(last.arg.v))
    /\ (last.arg = Before.intensity /\ Produced(Before)) =>
         (Known(ThreatsOf(Before)) # << >> <=> last.ret \in {Str("high"), Str("critical")})

====
